---- MODULE Spec2Model ----
(***************************************************************************)
(* Prompt lifecycle and weighted vote tally of the Flask API               *)
(* (app/routes/votes.py, app/routes/prompts.py, app/utils/db.py).          *)
(*                                                                         *)
(* Every execute_query call opens its own connection and commits before    *)
(* returning, so each SQL statement of a handler is one atomic step and    *)
(* the handlers of concurrent requests interleave between statements.      *)
(***************************************************************************)
EXTENDS Integers, FiniteSets, Sequences, TLC

\* ------------------------------------------------------------------ bounds
\* number of requests the server handles at the same time
MaxCalls == 2
\* number of rows the prompt table can hold (ids 1..MaxPrompts)
MaxPrompts == 1
\* number of status writes a behaviour may contain (values of the timestamp)
MaxClock == 3
\* number of rows of the prompt table when the pending list is read
MaxLignes == 3

\* ------------------------------------------------------- program constants
\* "if total_points >= 6" / "if total_points < 6"
SEUIL == 6

\* ------------------------------------------------------------ identities
\* rows of the table utilisateur: one admin without group, three members of
\* group g1, one user without group, one member of group g2
NULL == "null"

Utilisateurs == {"adm", "u1", "u2", "u3", "u4", "u5"}

\* utilisateur.role, copied into the JWT claims by authenticate_user
role(u) == IF u = "adm" THEN "admin" ELSE "user"

\* utilisateur.id_groupe (NULL when the user belongs to no group)
id_groupe(u) ==
  CASE u = "adm" -> NULL
    [] u = "u4" -> NULL
    [] u = "u5" -> "g2"
    [] OTHER -> "g1"

\* the users who submit prompts: a member of group g1 and a user without group
Createurs == {"u1", "adm"}

PromptIds == 1..MaxPrompts
Appels == 1..MaxCalls

\* statuts_valides of update_prompt_status
statuts_valides == {"en_attente", "activer", "a_revoir", "rappel", "a_supprimer"}

\* a status value a request body may carry that is not in statuts_valides
StatutInconnu == "inconnu"

\* marks an id_prompt for which the prompt table holds no row
ABSENT == "absent"

VARIABLES
  statut,       \* prompt.statut per id_prompt, ABSENT when there is no row
  id_createur,  \* prompt.id_createur per id_prompt
  date_modif,   \* prompt.date_derniere_modification per id_prompt
  via,          \* history: the handler whose write set prompt.statut last
  touche,       \* history: update_prompt_status wrote the prompt after a vote began
  vote,         \* number of rows of table vote per (id_prompt, id_utilisateur)
  note,         \* note.valeur per (id_prompt, id_utilisateur), 0 when there is no row
  date_creation,\* prompt.date_creation per id_prompt
  horloge,      \* the current time (CURRENT_TIMESTAMP / datetime.now())
  appels,       \* per request slot: position in the handler and its locals
  reponse       \* the response a handler has returned and the server is sending

vars == <<statut, id_createur, date_modif, via, touche, vote, note, date_creation,
          horloge, appels, reponse>>

store == <<statut, id_createur, date_modif, via, touche, vote, note, date_creation,
           horloge>>

\* ------------------------------------------------------------- responses
\* jsonify(...), code: the fields of the response the claims are about
Reponse(code, msg, total, needed) ==
  [code |-> code, msg |-> msg, total_points |-> total, points_needed |-> needed,
   statut |-> "", date |-> 0, notation |-> <<>>, prompts |-> <<>>]

\* a response that carries "prompt": result[0], the row the UPDATE returned
\* (RETURNING ... statut [, date_derniere_modification])
ReponsePrompt(code, msg, total, st, dt) ==
  [Reponse(code, msg, total, 0) EXCEPT !.statut = st, !.date = dt]

SansReponse == Reponse(0, "", 0, 0)

\* execute_query raised (conn.rollback(); raise e): the handler answers 500
Erreur500 == Reponse(500, "exception", 0, 0)

\* a request slot that holds no request
Libre ==
  [pc |-> "idle", op |-> "", user |-> "", pid |-> 0, cible |-> "", total |-> 0]

\* the request enters the handler op with identity u for prompt p
Entree(op, u, p, cible) ==
  [pc |-> "idle", op |-> op, user |-> u, pid |-> p, cible |-> cible, total |-> 0]

\* slot c takes a new request: it is free and the response of the request
\* before has left the server
Accepte(c) == appels[c].pc = "idle" /\ reponse = SansReponse

\* the handler of slot c returns rep: the slot is free again
Retour(c, rep) ==
  /\ appels' = [appels EXCEPT ![c] = Libre]
  /\ reponse' = rep

\* the handler of slot c goes on with the locals a
Suite(c, a) ==
  /\ appels' = [appels EXCEPT ![c] = a]
  /\ reponse' = SansReponse

\* -------------------------------------------------------------- the store
\* SELECT ... FROM prompt WHERE id_prompt = %s returns a row
PromptExiste(p) == p \in DOMAIN statut /\ statut[p] # ABSENT

\* variant of PointsCase without the IS NOT NULL test, NULL comparing equal to NULL
PointsCaseSansNull(g1, g2) ==
  IF g1 = g2 THEN 2 ELSE 1

\* CASE WHEN u1.id_groupe = u2.id_groupe AND u1.id_groupe IS NOT NULL THEN 2 ELSE 1
\* (in SQL NULL = NULL is not true)
PointsCase(g1, g2) ==
  IF g1 # NULL /\ g2 # NULL /\ g1 = g2 THEN 2 ELSE 1

RECURSIVE SommePoints(_, _)
\* SUM(CASE ...) over the rows of vote joined with the voter and the creator
SommePoints(p, us) ==
  IF us = {} THEN 0
  ELSE LET u == CHOOSE x \in us : TRUE
       IN vote[p][u] * PointsCase(id_groupe(u), id_groupe(id_createur[p]))
          + SommePoints(p, us \ {u})

\* points_result[0]['total_points'] if ... else 0
total_points(p) == SommePoints(p, Utilisateurs)

\* variant of EnRappel that also lets a pending prompt through
EnRappelOuEnAttente(s) == s \in {"rappel", "en_attente"}

\* the vote path accepts the prompt: prompt[0]['statut'] == 'rappel'
EnRappel(s) == s = "rappel"

\* existing_vote: SELECT id_vote FROM vote WHERE id_utilisateur AND id_prompt
existing_vote(u, p) == vote[p][u] > 0

\* variant of InsertionAcceptee for a table vote without the unique constraint
InsertionSansContrainte(u, p) == vote[p][u] >= 0

\* the table vote accepts the row (u, p): (id_utilisateur, id_prompt) is unique
InsertionAcceptee(u, p) == vote[p][u] = 0

\* variant of Autorisation that lets the creator set any status
AutorisationCreateurLibre(r, is_creator, nouveau_statut) ==
  IF r = "admin" \/ is_creator THEN "ok" ELSE "acces non autorise"

\* variant of Autorisation that answers every refusal with the same message
AutorisationUnSeulMessage(r, is_creator, nouveau_statut) ==
  IF r = "admin" THEN "ok"
  ELSE IF is_creator /\ nouveau_statut = "a_supprimer" THEN "ok"
  ELSE "acces non autorise"

\* authorization rules of update_prompt_status:
\* "ok", or the message of the 403 response
Autorisation(r, is_creator, nouveau_statut) ==
  IF r = "admin" THEN "ok"
  ELSE IF is_creator
       THEN IF nouveau_statut # "a_supprimer" THEN "suppression seulement" ELSE "ok"
       ELSE "acces non autorise"

\* a vote_prompt request for prompt p is between two of its statements
VoteEnCours(p) ==
  \E c \in Appels : appels[c].pc # "idle" /\ appels[c].op = "vote" /\ appels[c].pid = p

\* the table vote holds a row for prompt p
AVotes(p) == \E u \in Utilisateurs : vote[p][u] > 0

\* variant of EcrireStatut that removes the votes of a prompt it puts in 'rappel'
EcrireStatutEffaceVotes(p, s, par) ==
  /\ horloge < MaxClock
  /\ horloge' = horloge + 1
  /\ statut' = [statut EXCEPT ![p] = s]
  /\ date_modif' = [date_modif EXCEPT ![p] = horloge + 1]
  /\ via' = [via EXCEPT ![p] = par]
  /\ touche' = [touche EXCEPT ![p] = @ \/ (par = "statut" /\ (AVotes(p) \/ VoteEnCours(p)))]
  /\ vote' = IF s = "rappel" THEN [vote EXCEPT ![p] = [u \in Utilisateurs |-> 0]]
             ELSE vote
  /\ UNCHANGED <<id_createur, note, date_creation>>

\* variant of EcrireStatut whose UPDATE sets the status alone
EcrireStatutSansDate(p, s, par) ==
  /\ horloge < MaxClock
  /\ horloge' = horloge + 1
  /\ statut' = [statut EXCEPT ![p] = s]
  /\ via' = [via EXCEPT ![p] = par]
  /\ touche' = [touche EXCEPT ![p] = @ \/ (par = "statut" /\ (AVotes(p) \/ VoteEnCours(p)))]
  /\ UNCHANGED <<id_createur, vote, date_modif, note, date_creation>>

\* UPDATE prompt SET statut = s, date_derniere_modification = now
\* WHERE id_prompt = p, issued by the handler par
\* variant of EcrireStatut whose UPDATE has no WHERE id_prompt = %s
EcrireStatutSansWhere(p, s, par) ==
  /\ horloge < MaxClock
  /\ horloge' = horloge + 1
  /\ statut' = [q \in DOMAIN statut |-> IF statut[q] = ABSENT THEN ABSENT ELSE s]
  /\ date_modif' = [q \in DOMAIN statut |->
                      IF statut[q] = ABSENT THEN date_modif[q] ELSE horloge + 1]
  /\ via' = [via EXCEPT ![p] = par]
  /\ touche' = [touche EXCEPT ![p] = @ \/ (par = "statut" /\ (AVotes(p) \/ VoteEnCours(p)))]
  /\ UNCHANGED <<id_createur, vote, note, date_creation>>

\* UPDATE prompt SET statut = s, date_derniere_modification = now
\* WHERE id_prompt = p
EcrireStatut(p, s, par) ==
  /\ horloge < MaxClock
  /\ horloge' = horloge + 1
  /\ statut' = [statut EXCEPT ![p] = s]
  /\ date_modif' = [date_modif EXCEPT ![p] = horloge + 1]
  /\ via' = [via EXCEPT ![p] = par]
  /\ touche' = [touche EXCEPT ![p] = @ \/ (par = "statut" /\ (AVotes(p) \/ VoteEnCours(p)))]
  /\ UNCHANGED <<id_createur, vote, note, date_creation>>

\* an id_prompt of a request: a row of the table or an id it does not hold
IdsDemandes == 1..(MaxPrompts + 1)

\* ------------------------------------------------------------------ Init
Init ==
  /\ statut = [p \in PromptIds |-> ABSENT]
  /\ id_createur = [p \in PromptIds |-> NULL]
  /\ date_modif = [p \in PromptIds |-> 0]
  /\ via = [p \in PromptIds |-> ""]
  /\ touche = [p \in PromptIds |-> FALSE]
  /\ vote = [p \in PromptIds |-> [u \in Utilisateurs |-> 0]]
  /\ note = [p \in PromptIds |-> [u \in Utilisateurs |-> 0]]
  /\ date_creation = [p \in PromptIds |-> 0]
  /\ horloge = 0
  /\ appels = [c \in Appels |-> Libre]
  /\ reponse = SansReponse

\* ----------------------------------------------------------- create_prompt
\* INSERT INTO prompt (description, id_createur, statut) VALUES (.., 'en_attente')
create_prompt(u) ==
  \E p \in PromptIds :
    /\ reponse = SansReponse
    /\ statut[p] = ABSENT
    /\ \A q \in PromptIds : q < p => statut[q] # ABSENT
    /\ statut' = [statut EXCEPT ![p] = "en_attente"]
    /\ id_createur' = [id_createur EXCEPT ![p] = u]
    /\ via' = [via EXCEPT ![p] = "create"]
    /\ date_creation' = [date_creation EXCEPT ![p] = horloge]
    /\ reponse' = Reponse(201, "prompt cree", 0, 0)
    /\ UNCHANGED <<date_modif, touche, vote, note, horloge, appels>>

\* ------------------------------------------------------------- vote_prompt
\* variant of vote_prompt_check that tests the creator before the status
vote_prompt_check_createur_dabord(c, u, p) ==
  /\ Accepte(c)
  /\ UNCHANGED store
  /\ IF ~PromptExiste(p)
       THEN Retour(c, Reponse(404, "prompt non trouve", 0, 0))
     ELSE IF id_createur[p] = u
       THEN Retour(c, Reponse(403, "propre prompt", 0, 0))
     ELSE IF ~EnRappel(statut[p])
       THEN Retour(c, Reponse(400, "pas en etat de rappel", 0, 0))
     ELSE Suite(c, [Entree("vote", u, p, "") EXCEPT !.pc = "cv_existing"])

\* variant of vote_prompt_check without the test of the creator
vote_prompt_check_sans_createur(c, u, p) ==
  /\ Accepte(c)
  /\ UNCHANGED store
  /\ IF ~PromptExiste(p)
       THEN Retour(c, Reponse(404, "prompt non trouve", 0, 0))
     ELSE IF ~EnRappel(statut[p])
       THEN Retour(c, Reponse(400, "pas en etat de rappel", 0, 0))
     ELSE Suite(c, [Entree("vote", u, p, "") EXCEPT !.pc = "cv_existing"])

\* lines 14-33: read the prompt, then the checks on the row read
vote_prompt_check(c, u, p) ==
  /\ Accepte(c)
  /\ UNCHANGED store
  /\ IF ~PromptExiste(p)
       THEN Retour(c, Reponse(404, "prompt non trouve", 0, 0))
     ELSE IF ~EnRappel(statut[p])
       THEN Retour(c, Reponse(400, "pas en etat de rappel", 0, 0))
     ELSE IF id_createur[p] = u
       THEN Retour(c, Reponse(403, "propre prompt", 0, 0))
     ELSE Suite(c, [Entree("vote", u, p, "") EXCEPT !.pc = "cv_existing"])

\* lines 35-44: the duplicate-vote check
vote_prompt_existing(c) ==
  /\ appels[c].pc = "cv_existing"
  /\ UNCHANGED store
  /\ IF existing_vote(appels[c].user, appels[c].pid)
       THEN Retour(c, Reponse(409, "deja vote", 0, 0))
     ELSE Suite(c, [appels[c] EXCEPT !.pc = "cv_insert"])

\* variant of vote_prompt_insert that reads the status again and drops the
\* vote of a prompt that has left 'rappel' since the check
vote_prompt_insert_si_rappel(c) ==
  /\ appels[c].pc = "cv_insert"
  /\ LET a == appels[c] IN
     \/ /\ statut[a.pid] # "rappel"
        /\ Retour(c, Reponse(400, "pas en etat de rappel", 0, 0))
        /\ UNCHANGED store
     \/ /\ statut[a.pid] = "rappel"
        /\ ~InsertionAcceptee(a.user, a.pid)
        /\ Retour(c, Reponse(500, "unique violation", 0, 0))
        /\ UNCHANGED store
     \/ /\ statut[a.pid] = "rappel"
        /\ InsertionAcceptee(a.user, a.pid)
        /\ vote' = [vote EXCEPT ![a.pid][a.user] = @ + 1]
        /\ Suite(c, [a EXCEPT !.pc = "cv_points"])
        /\ UNCHANGED <<statut, id_createur, date_modif, via, touche, note,
                       date_creation, horloge>>

\* lines 46-54: INSERT INTO vote; an exception is caught at line 98
vote_prompt_insert(c) ==
  /\ appels[c].pc = "cv_insert"
  /\ LET a == appels[c] IN
     \/ /\ ~InsertionAcceptee(a.user, a.pid)
        /\ Retour(c, Reponse(500, "unique violation", 0, 0))
        /\ UNCHANGED store
     \/ /\ InsertionAcceptee(a.user, a.pid)
        /\ vote' = [vote EXCEPT ![a.pid][a.user] = @ + 1]
        /\ Suite(c, [a EXCEPT !.pc = "cv_points"])
        /\ UNCHANGED <<statut, id_createur, date_modif, via, touche, note,
                       date_creation, horloge>>

\* variant of vote_prompt_points that activates above the threshold only
vote_prompt_points_strict(c) ==
  /\ appels[c].pc = "cv_points"
  /\ UNCHANGED store
  /\ LET a == appels[c]
         t == total_points(a.pid) IN
     IF t > SEUIL
       THEN Suite(c, [a EXCEPT !.pc = "cv_update", !.total = t])
     ELSE Retour(c, Reponse(200, "vote enregistre", t, SEUIL - t))

\* variant of vote_prompt_points whose total leaves out the vote of the request
vote_prompt_points_sans_son_vote(c) ==
  /\ appels[c].pc = "cv_points"
  /\ UNCHANGED store
  /\ LET a == appels[c]
         t == total_points(a.pid)
                - PointsCase(id_groupe(a.user), id_groupe(id_createur[a.pid])) IN
     IF t >= SEUIL
       THEN Suite(c, [a EXCEPT !.pc = "cv_update", !.total = t])
     ELSE Retour(c, Reponse(200, "vote enregistre", t, SEUIL - t))

\* lines 56-74 and 90-96: the points query and the comparison with the threshold
vote_prompt_points(c) ==
  /\ appels[c].pc = "cv_points"
  /\ UNCHANGED store
  /\ LET a == appels[c]
         t == total_points(a.pid) IN
     IF t >= SEUIL
       THEN Suite(c, [a EXCEPT !.pc = "cv_update", !.total = t])
     ELSE Retour(c, Reponse(200, "vote enregistre", t, SEUIL - t))

\* lines 75-89: UPDATE prompt SET statut = 'activer' WHERE id_prompt = %s
vote_prompt_update(c) ==
  /\ appels[c].pc = "cv_update"
  /\ LET a == appels[c] IN
     /\ EcrireStatut(a.pid, "activer", "vote")
     /\ Retour(c, ReponsePrompt(200, "vote enregistre, prompt active", a.total,
                                statut'[a.pid], 0))

\* ---------------------------------------------------- update_prompt_status
\* lines 130-169: validation of the body, read of the prompt, authorization
update_prompt_status_check(c, u, p, nouveau_statut) ==
  /\ Accepte(c)
  /\ UNCHANGED store
  /\ IF nouveau_statut \notin statuts_valides
       THEN Retour(c, Reponse(400, "statut invalide", 0, 0))
     ELSE IF ~PromptExiste(p)
       THEN Retour(c, Reponse(404, "prompt non trouve", 0, 0))
     ELSE IF Autorisation(role(u), id_createur[p] = u, nouveau_statut) # "ok"
       THEN Retour(c, Reponse(403,
              Autorisation(role(u), id_createur[p] = u, nouveau_statut), 0, 0))
     ELSE Suite(c, [Entree("statut", u, p, nouveau_statut) EXCEPT !.pc = "st_update"])

\* variant of update_prompt_status_update that drops its write, and answers
\* with the row as it is, when another update_prompt_status wrote the prompt
\* last
update_prompt_status_update_premier_gagne(c) ==
  /\ appels[c].pc = "st_update"
  /\ LET a == appels[c] IN
     IF via[a.pid] = "statut"
       THEN /\ UNCHANGED store
            /\ Retour(c, ReponsePrompt(200, "statut mis a jour", 0,
                                       statut[a.pid], date_modif[a.pid]))
     ELSE /\ EcrireStatut(a.pid, a.cible, "statut")
          /\ Retour(c, ReponsePrompt(200, "statut mis a jour", 0,
                                     statut'[a.pid], date_modif'[a.pid]))

\* lines 171-186: UPDATE prompt SET statut = %s, date_derniere_modification = %s
update_prompt_status_update(c) ==
  /\ appels[c].pc = "st_update"
  /\ LET a == appels[c] IN
     /\ EcrireStatut(a.pid, a.cible, "statut")
     /\ Retour(c, ReponsePrompt(200, "statut mis a jour", 0,
                                statut'[a.pid], date_modif'[a.pid]))

\* ------------------------------------------------- activate_prompt_by_vote
\* variant of ActivableParVote that accepts a prompt that is already active
ActivableParVoteOuActif(p) == PromptExiste(p) /\ statut[p] \in {"rappel", "activer"}

\* "if not prompt or prompt[0]['statut'] != 'rappel'" is false
ActivableParVote(p) == PromptExiste(p) /\ statut[p] = "rappel"

\* lines 291-300: the admin check and the read of the status
activate_prompt_by_vote_check(c, u, p) ==
  /\ Accepte(c)
  /\ UNCHANGED store
  /\ IF role(u) # "admin"
       THEN Retour(c, Reponse(403, "acces non autorise", 0, 0))
     ELSE IF ~ActivableParVote(p)
       THEN Retour(c, Reponse(400, "ne peut pas etre active par vote", 0, 0))
     ELSE Suite(c, [Entree("activer", u, p, "") EXCEPT !.pc = "av_points"])

\* variant of activate_prompt_by_vote_points that refuses a total equal to the
\* threshold
activate_prompt_by_vote_points_strict(c) ==
  /\ appels[c].pc = "av_points"
  /\ UNCHANGED store
  /\ LET a == appels[c]
         t == total_points(a.pid) IN
     IF t <= SEUIL
       THEN Retour(c, Reponse(400, "minimum de 6 points non atteint", t, 0))
     ELSE Suite(c, [a EXCEPT !.pc = "av_update", !.total = t])

\* lines 302-323: the points query and the comparison with the threshold
activate_prompt_by_vote_points(c) ==
  /\ appels[c].pc = "av_points"
  /\ UNCHANGED store
  /\ LET a == appels[c]
         t == total_points(a.pid) IN
     IF t < SEUIL
       THEN Retour(c, Reponse(400, "minimum de 6 points non atteint", t, 0))
     ELSE Suite(c, [a EXCEPT !.pc = "av_update", !.total = t])

\* lines 325-341: UPDATE prompt SET statut = 'activer'
activate_prompt_by_vote_update(c) ==
  /\ appels[c].pc = "av_update"
  /\ LET a == appels[c] IN
     /\ EcrireStatut(a.pid, "activer", "activer")
     /\ Retour(c, ReponsePrompt(200, "prompt active par vote", a.total,
                                statut'[a.pid], 0))

\* ------------------------------------------------------------ execute_query
\* the statement the handler of slot c runs next (for a free slot: the first
\* statement of a new request) raises: conn.rollback() undoes that statement
\* alone, the statements before it are committed, and the handler answers 500
execute_query_raises(c) ==
  /\ appels[c].pc = "idle" => reponse = SansReponse
  /\ Retour(c, Erreur500)
  /\ UNCHANGED store

\* ------------------------------------------------------------------ return
\* "return jsonify(...), code": the response leaves the server
envoyer ==
  /\ reponse # SansReponse
  /\ reponse' = SansReponse
  /\ UNCHANGED <<store, appels>>

\* -------------------------------------------------------------------- Next
Next ==
  \/ \E u \in Createurs : create_prompt(u)
  \/ \E c \in Appels, u \in Utilisateurs, p \in IdsDemandes : vote_prompt_check(c, u, p)
  \/ \E c \in Appels : vote_prompt_existing(c)
  \/ \E c \in Appels : vote_prompt_insert(c)
  \/ \E c \in Appels : vote_prompt_points(c)
  \/ \E c \in Appels : vote_prompt_update(c)
  \/ \E c \in Appels, u \in Utilisateurs, p \in IdsDemandes,
        s \in statuts_valides \cup {StatutInconnu} :
        update_prompt_status_check(c, u, p, s)
  \/ \E c \in Appels : update_prompt_status_update(c)
  \/ \E c \in Appels, u \in Utilisateurs, p \in IdsDemandes :
        activate_prompt_by_vote_check(c, u, p)
  \/ \E c \in Appels : activate_prompt_by_vote_points(c)
  \/ \E c \in Appels : activate_prompt_by_vote_update(c)
  \/ \E c \in Appels : execute_query_raises(c)
  \/ envoyer

Spec == Init /\ [][Next]_vars

\* the steps of the server while no statement raises
NextSansEchec ==
  \/ \E u \in Createurs : create_prompt(u)
  \/ \E c \in Appels, u \in Utilisateurs, p \in IdsDemandes : vote_prompt_check(c, u, p)
  \/ \E c \in Appels : vote_prompt_existing(c)
  \/ \E c \in Appels : vote_prompt_insert(c)
  \/ \E c \in Appels : vote_prompt_points(c)
  \/ \E c \in Appels : vote_prompt_update(c)
  \/ \E c \in Appels, u \in Utilisateurs, p \in IdsDemandes,
        s \in statuts_valides \cup {StatutInconnu} :
        update_prompt_status_check(c, u, p, s)
  \/ \E c \in Appels : update_prompt_status_update(c)
  \/ \E c \in Appels, u \in Utilisateurs, p \in IdsDemandes :
        activate_prompt_by_vote_check(c, u, p)
  \/ \E c \in Appels : activate_prompt_by_vote_points(c)
  \/ \E c \in Appels : activate_prompt_by_vote_update(c)
  \/ envoyer

\* the server while execute_query never raises
SpecSansEchec == Init /\ [][NextSansEchec]_vars

\* ------------------------------------------------------ a table of two prompts
\* the rows of the table prompt
DeuxPrompts == 1..(MaxPrompts + 1)

\* an id_prompt of a request: a row of that table or an id it does not hold
IdsDeuxPrompts == 1..(MaxPrompts + 2)

\* the users who send the requests: the admin, the creator and a user of
\* another group
Demandeurs == {"adm", "u1", "u4"}

\* the status an admin has written on a prompt
StatutsInitiaux == {"rappel", "activer"}

\* the votes a prompt of u1 holds: none, 5 points or 6 points
VotesInitiaux == {{}, {"adm", "u2", "u3"}, {"adm", "u2", "u3", "u5"}}

\* the store after u1 has made the prompts, users have voted while they were
\* in 'rappel', and an admin has written the status of each, prompt p at date p
InitDeuxPrompts ==
  /\ statut \in [DeuxPrompts -> StatutsInitiaux]
  /\ id_createur = [p \in DeuxPrompts |-> "u1"]
  /\ date_modif = [p \in DeuxPrompts |-> p]
  /\ via = [p \in DeuxPrompts |-> "statut"]
  /\ \E vs \in [DeuxPrompts -> VotesInitiaux] :
       /\ vote = [p \in DeuxPrompts |->
                    [u \in Utilisateurs |-> IF u \in vs[p] THEN 1 ELSE 0]]
       /\ touche = [p \in DeuxPrompts |-> vs[p] # {}]
  /\ note = [p \in DeuxPrompts |-> [u \in Utilisateurs |-> 0]]
  /\ date_creation = [p \in DeuxPrompts |-> 0]
  /\ horloge = MaxPrompts + 1
  /\ appels = [c \in Appels |-> Libre]
  /\ reponse = SansReponse

\* @jwt_required(): a request without a valid token is answered 401 before the
\* handler runs
jwt_required_refuse ==
  /\ reponse = SansReponse
  /\ reponse' = Reponse(401, "jeton manquant", 0, 0)
  /\ UNCHANGED <<store, appels>>

NextDeuxPrompts ==
  \/ \E c \in Appels, u \in Demandeurs, p \in IdsDeuxPrompts : vote_prompt_check(c, u, p)
  \/ \E c \in Appels : vote_prompt_existing(c)
  \/ \E c \in Appels : vote_prompt_insert(c)
  \/ \E c \in Appels : vote_prompt_points(c)
  \/ \E c \in Appels : vote_prompt_update(c)
  \/ \E c \in Appels, u \in Demandeurs, p \in IdsDeuxPrompts,
        s \in statuts_valides \cup {StatutInconnu} :
        update_prompt_status_check(c, u, p, s)
  \/ \E c \in Appels : update_prompt_status_update(c)
  \/ \E c \in Appels, u \in Demandeurs, p \in IdsDeuxPrompts :
        activate_prompt_by_vote_check(c, u, p)
  \/ \E c \in Appels : activate_prompt_by_vote_points(c)
  \/ \E c \in Appels : activate_prompt_by_vote_update(c)
  \/ \E c \in Appels : execute_query_raises(c)
  \/ jwt_required_refuse
  \/ envoyer

SpecDeuxPrompts == InitDeuxPrompts /\ [][NextDeuxPrompts]_vars

\* ------------------------------------------------ votes on a prompt in 'rappel'
\* the store once a creator has made prompt 1 and an admin has put it in
\* 'rappel': no vote yet, no request in the server
InitRappel ==
  /\ \E u \in Createurs :
       id_createur = [p \in PromptIds |-> IF p = 1 THEN u ELSE NULL]
  /\ statut = [p \in PromptIds |-> IF p = 1 THEN "rappel" ELSE ABSENT]
  /\ date_modif = [p \in PromptIds |-> IF p = 1 THEN 1 ELSE 0]
  /\ via = [p \in PromptIds |-> IF p = 1 THEN "statut" ELSE ""]
  /\ touche = [p \in PromptIds |-> FALSE]
  /\ vote = [p \in PromptIds |-> [u \in Utilisateurs |-> 0]]
  /\ note = [p \in PromptIds |-> [u \in Utilisateurs |-> 0]]
  /\ date_creation = [p \in PromptIds |-> 0]
  /\ horloge = 1
  /\ appels = [c \in Appels |-> Libre]
  /\ reponse = SansReponse

\* the server receives vote_prompt requests only, and no statement raises
NextRappel ==
  \/ \E c \in Appels, u \in Utilisateurs, p \in IdsDemandes : vote_prompt_check(c, u, p)
  \/ \E c \in Appels : vote_prompt_existing(c)
  \/ \E c \in Appels : vote_prompt_insert(c)
  \/ \E c \in Appels : vote_prompt_points(c)
  \/ \E c \in Appels : vote_prompt_update(c)
  \/ envoyer

\* the worker that has taken a request runs the handler to its return, one
\* statement after the other, and the response leaves the server
HandlerTermine ==
  /\ \A c \in Appels :
       /\ WF_vars(vote_prompt_existing(c))
       /\ WF_vars(vote_prompt_insert(c))
       /\ WF_vars(vote_prompt_points(c))
       /\ WF_vars(vote_prompt_update(c))
  /\ WF_vars(envoyer)

SpecRappel == InitRappel /\ [][NextRappel]_vars /\ HandlerTermine

\* -------------------------------------------------------------- get_prompt
\* a request without Authorization header
ANONYME == "anonyme"

\* the values of note.valeur the table note holds
NoteValeurs == {5, 10}

\* the users whose notes the table note holds: two members of group g1, a
\* user without group, a member of group g2
Noteurs == {"u2", "u3", "u4", "u5"}

\* variant of NoteCase without the IS NOT NULL test, NULL comparing equal to NULL
NoteCaseSansNull(g1, g2) ==
  IF g1 = g2 THEN 6 ELSE 4

\* CASE WHEN u1.id_groupe = u2.id_groupe AND u1.id_groupe IS NOT NULL
\* THEN n.valeur * 0.6 ELSE n.valeur * 0.4: the factor, in tenths
NoteCase(g1, g2) ==
  IF g1 # NULL /\ g2 # NULL /\ g1 = g2 THEN 6 ELSE 4

RECURSIVE SommeNotes(_, _)
\* SUM(CASE ...) over the rows of note joined with the rater and the creator,
\* in tenths
SommeNotes(p, us) ==
  IF us = {} THEN 0
  ELSE LET u == CHOOSE x \in us : TRUE
       IN note[p][u] * NoteCase(id_groupe(u), id_groupe(id_createur[p]))
          + SommeNotes(p, us \ {u})

\* COUNT(*) and COUNT(n.id_note) of the note query
nombre_notes(p) == Cardinality({u \in Utilisateurs : note[p][u] > 0})

\* COALESCE(SUM(...) / COUNT(*), 0) as the fraction <<numerator, denominator>>
\* of tenths; over no row SUM is NULL, NULL / 0 is NULL and COALESCE gives 0
moyenne_ponderee(p) ==
  IF nombre_notes(p) = 0 THEN <<0, 1>>
  ELSE <<SommeNotes(p, Utilisateurs), nombre_notes(p)>>

\* prompt['notation'] = note_result[0]
notation(p) ==
  [moyenne_ponderee |-> moyenne_ponderee(p), nombre_notes |-> nombre_notes(p)]

\* jsonify(prompt), 200: the row of the prompt, with its notation when there is one
ReponseDetail(st, n) ==
  [Reponse(200, "prompt", 0, 0) EXCEPT !.statut = st, !.notation = n]

\* variant of get_prompt that shows a prompt that is not active to every
\* caller who sends a token
get_prompt_tout_jeton(u, p) ==
  /\ reponse = SansReponse
  /\ UNCHANGED <<store, appels>>
  /\ IF ~PromptExiste(p)
       THEN reponse' = Reponse(404, "prompt non trouve", 0, 0)
     ELSE \/ u # ANONYME /\ reponse' = Erreur500
          \/ IF statut[p] # "activer" /\ u = ANONYME
               THEN reponse' = Reponse(403, "acces non autorise", 0, 0)
             ELSE reponse' = ReponseDetail(statut[p],
                               IF statut[p] = "activer" THEN notation(p) ELSE <<>>)

\* lines 68-120; u is the identity of the token or ANONYME. get_jwt() is called
\* on a request that no jwt_required() has verified: the library raises (the
\* except answers 500) or returns the claims of the token
get_prompt(u, p) ==
  /\ reponse = SansReponse
  /\ UNCHANGED <<store, appels>>
  /\ IF ~PromptExiste(p)
       THEN reponse' = Reponse(404, "prompt non trouve", 0, 0)
     ELSE \/ u # ANONYME /\ reponse' = Erreur500
          \/ IF /\ statut[p] # "activer"
                /\ (u = ANONYME \/ (role(u) # "admin" /\ u # id_createur[p]))
               THEN reponse' = Reponse(403, "acces non autorise", 0, 0)
             ELSE reponse' = ReponseDetail(statut[p],
                               IF statut[p] = "activer" THEN notation(p) ELSE <<>>)

\* the tables when get_prompt is called: every prompt has a status of the enum
\* and a creator, the notes are notes of Noteurs on the first prompt
InitNotation ==
  /\ statut \in [PromptIds -> statuts_valides]
  /\ id_createur \in [PromptIds -> Createurs]
  /\ \E n \in [Noteurs -> NoteValeurs \cup {0}] :
       note = [p \in PromptIds |->
                [u \in Utilisateurs |-> IF p = 1 /\ u \in Noteurs THEN n[u] ELSE 0]]
  /\ date_modif = [p \in PromptIds |-> IF statut[p] = "en_attente" THEN 0 ELSE 1]
  /\ via = [p \in PromptIds |-> IF statut[p] = "en_attente" THEN "create" ELSE "statut"]
  /\ touche = [p \in PromptIds |-> FALSE]
  /\ vote = [p \in PromptIds |-> [u \in Utilisateurs |-> 0]]
  /\ date_creation = [p \in PromptIds |-> 0]
  /\ horloge = 1
  /\ appels = [c \in Appels |-> Libre]
  /\ reponse = SansReponse

NextNotation ==
  \/ \E u \in Utilisateurs \cup {ANONYME}, p \in IdsDemandes : get_prompt(u, p)
  \/ envoyer

SpecNotation == InitNotation /\ [][NextNotation]_vars

\* ----------------------------------------------------- get_pending_prompts
\* the rows of the prompt table when the pending list is read
Lignes == 1..MaxLignes

\* WHERE p.statut IN ('en_attente', 'a_revoir', 'a_supprimer', 'rappel')
StatutsEnAttente == {"en_attente", "a_revoir", "a_supprimer", "rappel"}

\* variant of rang that puts 'rappel' before 'a_supprimer'
rang_rappel_dabord(s) ==
  CASE s = "a_supprimer" -> 2
    [] s = "rappel" -> 1
    [] s = "en_attente" -> 3
    [] s = "a_revoir" -> 4

\* ORDER BY CASE WHEN p.statut = 'a_supprimer' THEN 1 WHEN 'rappel' THEN 2
\* WHEN 'en_attente' THEN 3 WHEN 'a_revoir' THEN 4 END
rang(s) ==
  CASE s = "a_supprimer" -> 1
    [] s = "rappel" -> 2
    [] s = "en_attente" -> 3
    [] s = "a_revoir" -> 4

\* the row a comes before the row b, or at the same place, under
\* ORDER BY CASE ... END, p.date_creation ASC
AvantOuEgal(a, b) ==
  \/ rang(statut[a]) < rang(statut[b])
  \/ rang(statut[a]) = rang(statut[b]) /\ date_creation[a] <= date_creation[b]

\* the results the query can return: the selected rows, each once, in an
\* order the ORDER BY allows (rows of equal status and date come in any order)
ListesEnAttente ==
  LET choisis == {p \in DOMAIN statut : statut[p] \in StatutsEnAttente}
      n == Cardinality(choisis)
  IN {l \in [1..n -> choisis] :
        /\ \A i, j \in 1..n : i # j => l[i] # l[j]
        /\ \A i, j \in 1..n : i < j => AvantOuEgal(l[i], l[j])}

\* jsonify(prompts), 200: the id_prompt of the rows, in the order of the result
ReponseListe(l) ==
  [Reponse(200, "prompts en attente", 0, 0) EXCEPT !.prompts = l]

\* lines 214-244; u is the identity of the token or ANONYME, whom
\* jwt_required() refuses
get_pending_prompts(u) ==
  /\ reponse = SansReponse
  /\ UNCHANGED <<store, appels>>
  /\ IF u = ANONYME
       THEN reponse' = Reponse(401, "jeton manquant", 0, 0)
     ELSE IF role(u) # "admin"
       THEN reponse' = Reponse(403, "acces non autorise", 0, 0)
     ELSE \E l \in ListesEnAttente : reponse' = ReponseListe(l)

\* the tables when the pending list is read: MaxLignes prompts, each with a
\* status of the enum and a creation time
InitListe ==
  /\ statut \in [Lignes -> statuts_valides]
  /\ date_creation \in [Lignes -> 1..MaxLignes]
  /\ id_createur = [p \in Lignes |-> "u1"]
  /\ date_modif = [p \in Lignes |->
                     IF statut[p] = "en_attente" THEN 0 ELSE MaxLignes + 1]
  /\ via = [p \in Lignes |-> IF statut[p] = "en_attente" THEN "create" ELSE "statut"]
  /\ touche = [p \in Lignes |-> FALSE]
  /\ vote = [p \in Lignes |-> [u \in Utilisateurs |-> 0]]
  /\ note = [p \in Lignes |-> [u \in Utilisateurs |-> 0]]
  /\ horloge = MaxLignes + 1
  /\ appels = [c \in Appels |-> Libre]
  /\ reponse = SansReponse

NextListe ==
  \/ \E u \in Utilisateurs \cup {ANONYME} : get_pending_prompts(u)
  \/ envoyer

SpecListe == InitListe /\ [][NextListe]_vars

\* ================================================================ claims
\* the weight the specification gives the vote of user u on prompt p
Poids(u, p) ==
  IF id_groupe(u) = NULL THEN 1
  ELSE IF id_groupe(id_createur[p]) = NULL THEN 1
  ELSE IF id_groupe(u) = id_groupe(id_createur[p]) THEN 2
  ELSE 1

\* the sum of the weights of the rows of vote for prompt p
SommePoids(p) ==
  LET us == {u \in Utilisateurs : vote[p][u] > 0}
      deux == {u \in us : Poids(u, p) = 2}
  IN 2 * Cardinality(deux) + Cardinality(us \ deux)

\* the total the step of slot c from cv_points has computed
TotalCalcule(c) ==
  IF appels'[c].pc = "cv_update" THEN appels'[c].total ELSE reponse'.total_points

\* C1: under every interleaving of vote_prompt requests, two requests of the
\* same user for the same prompt included, the table vote never holds more than
\* one row with the same (id_utilisateur, id_prompt).
C1_UnVoteParUtilisateur ==
  \A p \in PromptIds, u \in Utilisateurs : vote[p][u] <= 1

\* C1 witness: a request has passed the duplicate check and is about to insert
\* while the row of the same user for the same prompt is already recorded.
C1_Witness ==
  \E c \in Appels :
    /\ appels[c].pc = "cv_insert"
    /\ vote[appels[c].pid][appels[c].user] = 1

\* C2 (as claimed): the activation write of the vote path fires once: no
\* vote_prompt request writes 'activer' on a prompt that another vote_prompt
\* request has already activated.
C2_ActivationUneFois ==
  [][\A c \in Appels :
       vote_prompt_update(c) =>
         ~(statut[appels[c].pid] = "activer" /\ via[appels[c].pid] = "vote")]_vars

\* C3 (as claimed): at the step where vote_prompt inserts the row, the status
\* of the prompt is 'rappel'.
C3_VoteSeulementEnRappel ==
  [][\A c \in Appels :
       (vote_prompt_insert(c) /\ vote' # vote) =>
         statut[appels[c].pid] = "rappel"]_vars

\* C4: for an existing prompt whose status is not 'rappel', vote_prompt by any
\* user answers 400 "pas en etat de rappel", records no vote, changes no field
\* of the prompt and is over.
C4_HorsRappelRefuse ==
  [][\A c \in Appels, u \in Utilisateurs, p \in PromptIds :
       (PromptExiste(p) /\ statut[p] # "rappel" /\ vote_prompt_check(c, u, p)) =>
         /\ reponse' = Reponse(400, "pas en etat de rappel", 0, 0)
         /\ appels' = appels
         /\ vote' = vote
         /\ statut' = statut /\ date_modif' = date_modif
         /\ id_createur' = id_createur]_vars

\* C4 witness: the 400 answer was given for an active prompt that has votes.
C4_Witness ==
  /\ reponse = Reponse(400, "pas en etat de rappel", 0, 0)
  /\ \E p \in PromptIds : statut[p] = "activer" /\ AVotes(p)

\* C5: the total vote_prompt computes equals the sum, over the rows of vote
\* then recorded for the prompt, the one just inserted included, of 2 when the
\* voter's group is not null and equals the creator's group and of 1 otherwise.
C5_TotalEstSommeDesPoids ==
  [][\A c \in Appels :
       vote_prompt_points(c) =>
         /\ TotalCalcule(c) = SommePoids(appels[c].pid)
         /\ vote[appels[c].pid][appels[c].user] >= 1]_vars

\* C5 witness: on a prompt of a creator without group, a voter without group
\* and a voter of group g1 have voted and the total answered is 2.
C5_Witness ==
  \E p \in PromptIds :
    /\ id_createur[p] = "adm"
    /\ vote[p]["u4"] = 1 /\ vote[p]["u2"] = 1
    /\ reponse = Reponse(200, "vote enregistre", 2, 4)

\* C6: every status write of update_prompt_status is authorized: the caller is
\* an admin and the target a status of the enum, or the caller is not an admin,
\* is the creator of the prompt and the target is 'a_supprimer'; the write sets
\* the status to the target.
C6_EcritureAutorisee ==
  [][\A c \in Appels :
       update_prompt_status_update(c) =>
         LET a == appels[c] IN
           /\ statut'[a.pid] = a.cible
           /\ \/ role(a.user) = "admin" /\ a.cible \in statuts_valides
              \/ /\ role(a.user) # "admin"
                 /\ a.user = id_createur[a.pid]
                 /\ a.cible = "a_supprimer"]_vars

\* C6 witness: after an admin put the prompt in 'rappel', the request of its
\* creator, who is not an admin, has passed the authorization and is about to
\* write.
C6_Witness ==
  \E c \in Appels :
    /\ appels[c].pc = "st_update"
    /\ role(appels[c].user) # "admin"
    /\ statut[appels[c].pid] = "rappel"
    /\ via[appels[c].pid] = "statut"

C8_EchecAnnuleLeVote ==
  [][\A c \in Appels :
       (execute_query_raises(c) /\ appels[c].pc \in {"cv_points", "cv_update"}) =>
         vote'[appels[c].pid][appels[c].user] = 0]_vars

\* C9 (as claimed): once no vote_prompt request is in progress on a prompt, if
\* its recorded votes sum to at least 6 and no update_prompt_status write
\* touched it since the votes began, the prompt is active.
C9_TotalAtteintDoncActif ==
  \A p \in PromptIds :
    (PromptExiste(p) /\ ~VoteEnCours(p) /\ ~touche[p] /\ SommePoids(p) >= SEUIL) =>
      statut[p] = "activer"

\* C10: a vote_prompt request that has passed its four checks and whose insert
\* does not raise has its row in the table vote, also when the prompt has left
\* 'rappel' in between; the total it computes counts that row; and no row of
\* vote is ever removed.
C10_VoteJamaisPerdu ==
  [][/\ \A c \in Appels :
          /\ vote_prompt_insert(c) => vote'[appels[c].pid][appels[c].user] >= 1
          /\ vote_prompt_points(c) =>
               /\ vote[appels[c].pid][appels[c].user] >= 1
               /\ TotalCalcule(c) >= Poids(appels[c].user, appels[c].pid)
     /\ \A p \in PromptIds, u \in Utilisateurs : vote'[p][u] >= vote[p][u]]_vars

\* C10 witness: a request has inserted its vote and is about to compute the
\* total while the prompt is already activated by the vote of another request.
C10_Witness ==
  \E c \in Appels :
    /\ appels[c].pc = "cv_points"
    /\ statut[appels[c].pid] = "activer" /\ via[appels[c].pid] = "vote"
    /\ vote[appels[c].pid][appels[c].user] = 1

\* C11: every write that sets prompt.statut sets date_derniere_modification in
\* the same statement: the UPDATE of update_prompt_status (a write of the status
\* the prompt already has included), of vote_prompt and of
\* activate_prompt_by_vote stamps the row with the time of the write, and no
\* step changes the status of an existing row without stamping it.
C11_StatutEtDateEnsemble ==
  [][/\ \A p \in PromptIds :
          (PromptExiste(p) /\ statut'[p] # statut[p]) =>
            (date_modif'[p] = horloge' /\ date_modif'[p] > date_modif[p])
     /\ \A c \in Appels :
          (\/ update_prompt_status_update(c)
           \/ vote_prompt_update(c)
           \/ activate_prompt_by_vote_update(c)) =>
            /\ date_modif'[appels[c].pid] = horloge'
            /\ date_modif'[appels[c].pid] > date_modif[appels[c].pid]]_vars

\* C11 witness: the first write on a pending prompt is an admin's
\* update_prompt_status to 'en_attente', the status it already had, and the
\* row carries the time of that write.
C11_Witness ==
  \E p \in PromptIds :
    /\ statut[p] = "en_attente" /\ via[p] = "statut"
    /\ horloge = 1 /\ date_modif[p] = 1

\* C12: vote_prompt reports the first failing check in the order: no row for
\* the id gives 404; else a status other than 'rappel' gives 400, also for the
\* creator and for a user whose vote is recorded; else the creator gives 403;
\* else the request goes on to the duplicate check, where a recorded vote of
\* the caller gives 409 and no recorded vote lets the request go on to the insert.
C12_OrdreDesControles ==
  [][\A c \in Appels :
       /\ \A u \in Utilisateurs, p \in IdsDemandes :
            vote_prompt_check(c, u, p) =>
              IF ~PromptExiste(p)
                THEN reponse' = Reponse(404, "prompt non trouve", 0, 0)
              ELSE IF statut[p] # "rappel"
                THEN reponse' = Reponse(400, "pas en etat de rappel", 0, 0)
              ELSE IF id_createur[p] = u
                THEN reponse' = Reponse(403, "propre prompt", 0, 0)
              ELSE reponse' = SansReponse /\ appels'[c].pc = "cv_existing"
       /\ vote_prompt_existing(c) =>
            IF vote[appels[c].pid][appels[c].user] > 0
              THEN reponse' = Reponse(409, "deja vote", 0, 0)
            ELSE reponse' = SansReponse /\ appels'[c].pc = "cv_insert"]_vars

\* C12 witness: the 400 answer was given for an active prompt on which every
\* user but the creator has voted: its caller was the creator or a user whose
\* vote is recorded.
C12_Witness ==
  /\ reponse = Reponse(400, "pas en etat de rappel", 0, 0)
  /\ \E p \in PromptIds :
       /\ statut[p] = "activer"
       /\ \A u \in Utilisateurs \ {id_createur[p]} : vote[p][u] = 1

\* C13 (as claimed): a vote_prompt request that has recorded its vote reports
\* the activation exactly when the total of the recorded votes is >= 6, and
\* otherwise answers points_needed = 6 - total, a value in 1..5, with the
\* prompt still in 'rappel'.
C13_ReponseDuVote ==
  [][\A c \in Appels :
       /\ vote_prompt_points(c) =>
            LET p == appels[c].pid
                t == SommePoids(p) IN
              IF t >= SEUIL
                THEN appels'[c].pc = "cv_update" /\ appels'[c].total = t
              ELSE /\ reponse' = Reponse(200, "vote enregistre", t, SEUIL - t)
                   /\ SEUIL - t \in 1..(SEUIL - 1)
                   /\ statut'[p] = "rappel"
       /\ vote_prompt_update(c) =>
            /\ reponse' = ReponsePrompt(200, "vote enregistre, prompt active",
                                        appels[c].total, "activer", 0)
            /\ appels[c].total >= SEUIL
            /\ statut'[appels[c].pid] = "activer"]_vars

\* C14: vote_prompt called by the creator of a prompt in 'rappel' answers 403
\* "propre prompt", is over and records nothing; no row of vote has the
\* creator of its prompt as voter.
C14_CreateurNeVotePas ==
  [][/\ \A p \in PromptIds, u \in Utilisateurs :
          vote'[p][u] > 0 => u # id_createur'[p]
     /\ \A c \in Appels, u \in Utilisateurs, p \in PromptIds :
          (/\ PromptExiste(p) /\ statut[p] = "rappel" /\ id_createur[p] = u
           /\ vote_prompt_check(c, u, p)) =>
            /\ reponse' = Reponse(403, "propre prompt", 0, 0)
            /\ appels' = appels
            /\ vote' = vote]_vars

\* C14 witness: the 403 answer was given to the creator of a prompt in
\* 'rappel' that has votes of other users.
C14_Witness ==
  /\ reponse = Reponse(403, "propre prompt", 0, 0)
  /\ \E p \in PromptIds : statut[p] = "rappel" /\ AVotes(p)

\* C15: activate_prompt_by_vote called by a non-admin answers 403 and writes
\* nothing; called by an admin on a prompt in 'rappel' it computes the same
\* weighted sum of the recorded votes as vote_prompt: below 6 (no vote at all
\* included) it answers 400 with that total and leaves statut and
\* date_derniere_modification as they are, from 6 on it sets the status to
\* 'activer' and answers 200 with the total.
C15_ForceActiverSelonTotal ==
  [][\A c \in Appels :
       /\ \A u \in Utilisateurs, p \in IdsDemandes :
            (role(u) # "admin" /\ activate_prompt_by_vote_check(c, u, p)) =>
              /\ reponse' = Reponse(403, "acces non autorise", 0, 0)
              /\ appels' = appels
              /\ statut' = statut /\ date_modif' = date_modif /\ vote' = vote
       /\ activate_prompt_by_vote_points(c) =>
            LET p == appels[c].pid
                t == SommePoids(p) IN
              /\ role(appels[c].user) = "admin"
              /\ statut' = statut /\ date_modif' = date_modif /\ vote' = vote
              /\ IF t < SEUIL
                   THEN /\ reponse' = Reponse(400, "minimum de 6 points non atteint", t, 0)
                        /\ appels'[c] = Libre
                   ELSE appels'[c].pc = "av_update" /\ appels'[c].total = t
       /\ activate_prompt_by_vote_update(c) =>
            /\ appels[c].total >= SEUIL
            /\ statut'[appels[c].pid] = "activer"
            /\ reponse' = ReponsePrompt(200, "prompt active par vote",
                                        appels[c].total, "activer", 0)]_vars

\* C15 witness: an admin's activate_prompt_by_vote has activated a prompt whose
\* recorded votes sum to exactly 6 and has answered with that total.
C15_Witness ==
  /\ reponse = ReponsePrompt(200, "prompt active par vote", SEUIL, "activer", 0)
  /\ \E p \in PromptIds :
       statut[p] = "activer" /\ via[p] = "activer" /\ SommePoids(p) = SEUIL

\* C16: update_prompt_status answers its refusals with different responses: a
\* target outside statuts_valides gives 400 "statut invalide"; else an id
\* without row gives 404; else a caller who is neither admin nor the creator
\* gives 403 "acces non autorise"; else a creator who is not an admin and asks
\* for a target other than 'a_supprimer' gives 403 "suppression seulement";
\* the two 403 responses differ. In every state where a slot takes a request,
\* the handler can give the expected response and no other.
C16_ErreursDistinctes ==
  \A c \in Appels :
    Accepte(c) =>
      \A u \in Utilisateurs, p \in IdsDemandes,
         s \in statuts_valides \cup {StatutInconnu} :
        LET attendue ==
              IF s \notin statuts_valides
                THEN Reponse(400, "statut invalide", 0, 0)
              ELSE IF ~PromptExiste(p)
                THEN Reponse(404, "prompt non trouve", 0, 0)
              ELSE IF role(u) # "admin" /\ id_createur[p] # u
                THEN Reponse(403, "acces non autorise", 0, 0)
              ELSE IF role(u) # "admin" /\ s # "a_supprimer"
                THEN Reponse(403, "suppression seulement", 0, 0)
              ELSE SansReponse
        IN /\ ENABLED (update_prompt_status_check(c, u, p, s) /\ reponse' = attendue)
           /\ ~ENABLED (update_prompt_status_check(c, u, p, s) /\ reponse' # attendue)
           /\ Reponse(403, "acces non autorise", 0, 0)
                # Reponse(403, "suppression seulement", 0, 0)

\* C16 witness: the creator of a prompt, who is not an admin, has asked for a
\* status other than 'a_supprimer' and got the 403 answer of the creator.
C16_Witness ==
  /\ reponse = Reponse(403, "suppression seulement", 0, 0)
  /\ \E p \in PromptIds : PromptExiste(p) /\ role(id_createur[p]) # "admin"

\* C17: concurrent update_prompt_status requests on one prompt are applied one
\* write after the other: the write of each request that passed its checks
\* sets the status to its own target and its response carries the row that
\* write produced; a request at its write either writes or answers 500; and
\* the status of a row changes at a write only, so it stays the target of the
\* write that committed last.
C17_DerniereEcritureGagne ==
  [][/\ \A c \in Appels :
          /\ update_prompt_status_update(c) =>
               LET a == appels[c] IN
                 /\ statut'[a.pid] = a.cible
                 /\ date_modif'[a.pid] = horloge'
                 /\ reponse' = ReponsePrompt(200, "statut mis a jour", 0,
                                             a.cible, date_modif'[a.pid])
          /\ (appels[c].pc = "st_update" /\ appels'[c] # appels[c]) =>
               \/ update_prompt_status_update(c)
               \/ reponse' = Erreur500 /\ store' = store
     /\ \A p \in PromptIds :
          (PromptExiste(p) /\ statut'[p] # statut[p]) =>
            \E c \in Appels :
              /\ appels[c].pid = p
              /\ \/ update_prompt_status_update(c)
                 \/ vote_prompt_update(c)
                 \/ activate_prompt_by_vote_update(c)]_vars

\* C17 witness: of two update_prompt_status requests that passed their checks
\* on the same prompt, one has committed its write and answered with its own
\* target while the other is about to write another target.
C17_Witness ==
  \E c \in Appels :
    /\ appels[c].pc = "st_update"
    /\ reponse.msg = "statut mis a jour"
    /\ reponse.statut = statut[appels[c].pid]
    /\ via[appels[c].pid] = "statut" /\ date_modif[appels[c].pid] >= 2
    /\ appels[c].cible # statut[appels[c].pid]

\* the factor, in tenths, the specification gives the note of user u on prompt p
PoidsNote(u, p) ==
  IF id_groupe(u) = NULL THEN 4
  ELSE IF id_groupe(id_createur[p]) = NULL THEN 4
  ELSE IF id_groupe(u) = id_groupe(id_createur[p]) THEN 6
  ELSE 4

RECURSIVE SommePondereeDesNotes(_, _)
\* the sum, in tenths, of the weighted values of the notes of value in vs
SommePondereeDesNotes(p, vs) ==
  IF vs = {} THEN 0
  ELSE LET v == CHOOSE x \in vs : TRUE
           six == {u \in Utilisateurs : note[p][u] = v /\ PoidsNote(u, p) = 6}
           quatre == {u \in Utilisateurs : note[p][u] = v /\ PoidsNote(u, p) = 4}
       IN v * (6 * Cardinality(six) + 4 * Cardinality(quatre))
          + SommePondereeDesNotes(p, vs \ {v})

\* C18: for an active prompt get_prompt answers, to a caller without token
\* always and to any caller it answers 200, nombre_notes = the number of notes
\* of the prompt and moyenne_ponderee = (sum over the notes of valeur * 0.6 when
\* the rater's group is not null and equals the creator's group, else of
\* valeur * 0.4) / nombre_notes, and 0 with 0 notes when there is no note
\* (values in tenths, the quotient compared as a fraction).
C18_NotationPonderee ==
  [][\A u \in Utilisateurs \cup {ANONYME}, p \in PromptIds :
       (statut[p] = "activer" /\ get_prompt(u, p)) =>
         LET n == Cardinality({x \in Utilisateurs : note[p][x] > 0})
             somme == SommePondereeDesNotes(p, NoteValeurs)
             r == reponse'.notation IN
           /\ u = ANONYME => reponse'.code = 200
           /\ reponse'.code = 200 =>
                /\ r.nombre_notes = n
                /\ IF n = 0
                     THEN r.moyenne_ponderee[1] = 0
                     ELSE r.moyenne_ponderee[1] * n = somme * r.moyenne_ponderee[2]]_vars

\* C18 witness: on a prompt of u1 (group g1) with the note 5 of u2 (group g1)
\* and the note 10 of u5 (group g2), get_prompt has answered 70/2 tenths, that
\* is 3.5, with nombre_notes = 2.
C18_Witness ==
  \E p \in PromptIds :
    /\ id_createur[p] = "u1" /\ statut[p] = "activer"
    /\ note[p] = [u \in Utilisateurs |->
                    IF u = "u2" THEN 5 ELSE IF u = "u5" THEN 10 ELSE 0]
    /\ reponse.code = 200
    /\ reponse.notation = [moyenne_ponderee |-> <<70, 2>>, nombre_notes |-> 2]

\* the order of the statuses in the pending list of the specification
OrdreDesStatuts == <<"a_supprimer", "rappel", "en_attente", "a_revoir">>

\* the place of status s in OrdreDesStatuts
Place(s) == CHOOSE i \in 1..Len(OrdreDesStatuts) : OrdreDesStatuts[i] = s

\* C19: get_pending_prompts called by an admin answers 200 with exactly the
\* prompts whose status is 'en_attente', 'a_revoir', 'a_supprimer' or 'rappel',
\* each once and none that is active, ordered by status ('a_supprimer', then
\* 'rappel', then 'en_attente', then 'a_revoir') and within one status by
\* date_creation, oldest first; any other caller gets an error and no list.
C19_ListeEnAttente ==
  [][\A u \in Utilisateurs \cup {ANONYME} :
       get_pending_prompts(u) =>
         LET l == reponse'.prompts IN
           IF u # ANONYME /\ role(u) = "admin"
             THEN /\ reponse'.code = 200
                  /\ {l[i] : i \in 1..Len(l)} =
                       {p \in Lignes : statut[p] \in
                          {"en_attente", "a_revoir", "a_supprimer", "rappel"}}
                  /\ \A i, j \in 1..Len(l) : i # j => l[i] # l[j]
                  /\ \A i \in 1..Len(l) : statut[l[i]] # "activer"
                  /\ \A i, j \in 1..Len(l) :
                       i < j =>
                         \/ Place(statut[l[i]]) < Place(statut[l[j]])
                         \/ /\ statut[l[i]] = statut[l[j]]
                            /\ date_creation[l[i]] <= date_creation[l[j]]
           ELSE reponse'.code \in {401, 403} /\ l = <<>>]_vars

\* C19 witness: with prompt 1 in 'a_revoir' and the prompts 2 and 3 in
\* 'a_supprimer', 3 older than 2, the list answered is 3, 2, 1.
C19_Witness ==
  /\ statut = [p \in Lignes |-> IF p = 1 THEN "a_revoir" ELSE "a_supprimer"]
  /\ date_creation[3] < date_creation[2]
  /\ reponse.code = 200
  /\ reponse.prompts = <<3, 2, 1>>

\* C20: the rows of vote are only ever added: no step of vote_prompt,
\* update_prompt_status or activate_prompt_by_vote removes or changes a row,
\* the status writes leave the table vote as it is, and so the votes of a
\* prompt that leaves 'rappel' and comes back to it are still recorded.
C20_VotesSeulementAjoutes ==
  [][/\ \A p \in PromptIds, u \in Utilisateurs : vote'[p][u] >= vote[p][u]
     /\ \A c \in Appels :
          (\/ update_prompt_status_update(c)
           \/ vote_prompt_update(c)
           \/ activate_prompt_by_vote_update(c)) => vote' = vote]_vars

\* C20 witness: a prompt has left 'rappel' by the activation of the vote path,
\* its votes are recorded, and an admin's update_prompt_status is about to put
\* it back in 'rappel'.
C20_Witness ==
  \E c \in Appels :
    /\ appels[c].pc = "st_update" /\ appels[c].cible = "rappel"
    /\ statut[appels[c].pid] = "activer" /\ via[appels[c].pid] = "vote"
    /\ SommePoids(appels[c].pid) >= SEUIL

\* C21: get_prompt returns a prompt whose status is not 'activer' to an admin
\* or to its creator only: every other caller, the one without token
\* included, gets an error (403 "acces non autorise", or the 500 of a raising
\* get_jwt) and no prompt; a 200 answer carries the row read, with the
\* notation exactly when its status is 'activer'.
C21_DetailSelonStatut ==
  [][\A u \in Utilisateurs \cup {ANONYME}, p \in PromptIds :
       (PromptExiste(p) /\ get_prompt(u, p)) =>
         LET autorise == u # ANONYME /\ (role(u) = "admin" \/ u = id_createur[p]) IN
           /\ (statut[p] # "activer" /\ ~autorise) =>
                /\ reponse' \in {Reponse(403, "acces non autorise", 0, 0), Erreur500}
                /\ u = ANONYME => reponse'.code = 403
           /\ reponse'.code # 200 =>
                reponse'.statut = "" /\ DOMAIN reponse'.notation = {}
           /\ reponse'.code = 200 =>
                /\ reponse'.statut = statut[p]
                /\ (DOMAIN reponse'.notation # {}) <=> (statut[p] = "activer")
                /\ statut[p] = "activer" => reponse'.notation = notation(p)]_vars

\* C21 witness: a prompt in 'rappel' has been returned, without notation.
C21_Witness ==
  /\ reponse.code = 200 /\ reponse.msg = "prompt"
  /\ reponse.statut = "rappel"
  /\ DOMAIN reponse.notation = {}
  /\ \E p \in PromptIds : statut[p] = "rappel"

\* C22 (as claimed): the activation write of vote_prompt does not overwrite a
\* status that update_prompt_status has written: when the last write on the
\* prompt is one of update_prompt_status, the activation write runs on a
\* prompt in 'rappel' only, so it moves no prompt from another status to
\* 'activer'.
C22_ActivationDepuisRappel ==
  [][\A c \in Appels :
       (/\ appels[c].pc = "cv_update" /\ via[appels[c].pid] = "statut"
        /\ vote_prompt_update(c)) =>
         statut[appels[c].pid] = "rappel"]_vars

\* an activate_prompt_by_vote request for prompt p is between two of its statements
ActivationEnCours(p) ==
  \E c \in Appels :
    appels[c].pc # "idle" /\ appels[c].op = "activer" /\ appels[c].pid = p

VotantsEngages(p) ==
  {u \in Utilisateurs : vote[p][u] > 0}
    \cup {appels[c].user : c \in {d \in Appels :
                                    /\ appels[d].op = "vote" /\ appels[d].pid = p
                                    /\ appels[d].pc \in {"cv_existing", "cv_insert"}}}

\* the sum of the weights of the recorded votes and of the votes being cast
PoidsEngages(p) ==
  LET deux == {u \in VotantsEngages(p) : Poids(u, p) = 2}
  IN 2 * Cardinality(deux) + Cardinality(VotantsEngages(p) \ deux)

\* C24: while update_prompt_status writes nothing and no statement raises, a
\* prompt in 'rappel' for which the recorded votes and the votes that users
\* who have not voted yet are casting sum to 6 points or more eventually
\* becomes 'activer', and every vote_prompt request that has started returns.
C24_ReactivationFinitParArriver ==
  /\ \A p \in PromptIds :
       (statut[p] = "rappel" /\ PoidsEngages(p) >= SEUIL) ~> (statut[p] = "activer")
  /\ \A c \in Appels :
       (appels[c].pc # "idle" /\ appels[c].op = "vote") ~> (appels[c].pc = "idle")

\* C24 witness: a prompt that was in 'rappel' has been activated by the votes
\* of users who had not voted, and no vote_prompt request is left in the server.
C24_Witness ==
  \E p \in PromptIds :
    /\ statut[p] = "activer" /\ via[p] = "vote"
    /\ SommePoids(p) >= SEUIL
    /\ ~VoteEnCours(p)

\* the status codes of the refusals: 400, 401, 403, 404 and 409
CodesDeRefus == {400, 401, 403, 404, 409}

\* the step ends a request, or refuses one at its first statement
RequeteRendue ==
  \/ reponse = SansReponse /\ reponse' # SansReponse
  \/ \E c \in Appels : appels[c].pc # "idle" /\ appels'[c].pc = "idle"

\* C25: a request that is refused (400, 401, 403, 404, 409), and an
\* activate_prompt_by_vote request that ends in any error, writes no status, no
\* date_derniere_modification and no vote, at the step that answers and at
\* the steps before it; and every step of a request for one prompt leaves the
\* status, the date and the votes of every other prompt as they were.
C25_RefusSansEcriture ==
  [][/\ (reponse'.code \in CodesDeRefus /\ RequeteRendue) =>
          UNCHANGED <<statut, date_modif, vote>>
     /\ \A c \in Appels :
          appels'[c] # appels[c] =>
            LET a == IF appels[c].pc = "idle" THEN appels'[c] ELSE appels[c] IN
            /\ appels'[c].pc \in {"cv_existing", "st_update", "av_points", "av_update"} =>
                 UNCHANGED <<statut, date_modif, vote>>
            /\ (a.op = "activer" /\ appels'[c].pc = "idle" /\ reponse'.code >= 400) =>
                 UNCHANGED <<statut, date_modif, vote>>
            /\ \A q \in DOMAIN statut \ {a.pid} :
                 /\ statut'[q] = statut[q]
                 /\ date_modif'[q] = date_modif[q]
                 /\ vote'[q] = vote[q]]_vars

\* C25 witness: a vote for one prompt has been recorded and has activated it,
\* another prompt is still in 'rappel' with its votes, and a later vote for
\* that other prompt is refused as a duplicate.
C25_Witness ==
  \E p, q \in DOMAIN statut :
    /\ p # q
    /\ statut[p] = "activer" /\ via[p] = "vote"
    /\ statut[q] = "rappel" /\ AVotes(q)
    /\ reponse.code = 409

====
